---- MODULE Spec2Model ----
(***************************************************************************)
(* cbrotli.Reader (go/cbrotli/reader.go): the streaming adapter that       *)
(* drives the Brotli decode engine behind an io.ReadCloser, and the        *)
(* one-shot DecodeWithRawDictionary built on it.                           *)
(*                                                                         *)
(* Read is modelled statement group by statement group (program counter    *)
(* pc), Close as its two effects in code order (destroy, then unpin).      *)
(* The decode engine is C code outside the Go source: it is an opaque      *)
(* state machine here, a small token decoder that honours the engine       *)
(* contract (consumes what it can, writes what it can, reports             *)
(* SUCCESS / NEEDS_MORE_INPUT / NEEDS_MORE_OUTPUT / ERROR).                *)
(***************************************************************************)
EXTENDS Integers, Sequences, FiniteSets, TLC

\* ---------------------------------------------------------------- bounds

\* Longest compressed stream handed to a Reader.
MaxLen == 2
\* Longest compressed stream handed to a Reader that has a dictionary (the
\* dictionary plays no part in Read).
MaxDictLen == 2
\* Largest caller buffer len(p) passed to Read.
MaxP == 2
\* Capacity of r.buf (readBufSize, 32 KiB in the source, scaled down).
readBufSize == 2

\* ------------------------------------------------------- compressed bytes

\* The engine's stream format, reduced to five byte values.  END terminates
\* the stream; LIT decodes to the one byte 1 and LIT2 to the one byte 2; RUN
\* decodes to the two bytes 2 2 (output larger than its input); HDR is a
\* header: consumed without output before the first data token, corrupt
\* after it.  Every sequence over the bytes 1 and 2 has an encoding.
END == 0
LIT == 1
RUN == 2
HDR == 3
LIT2 == 4

Byte == {END, LIT, RUN, HDR, LIT2}

Min(a, b) == IF a < b THEN a ELSE b

SeqsUpTo(S, n) == UNION {[1..k -> S] : k \in 0..n}

Drop(s, k) == SubSeq(s, k + 1, Len(s))

Take(s, k) == SubSeq(s, 1, k)

IsPrefix(a, b) == Len(a) <= Len(b) /\ a = Take(b, Len(a))

\* ------------------------------------------------------------ the engine

\* BrotliDecoderCreateInstance: a fresh decoder, nothing decoded, nothing
\* buffered.  phase: "hdr" before the first data token, "run" decoding,
\* "done" after END, "err" after a corrupt byte.  pend: decoded bytes not
\* yet handed out.
CreateInstance == [phase |-> "hdr", pend |-> <<>>, dict |-> "none"]

\* One input byte taken by the decoder.
Feed(s, b) ==
    CASE s.phase \in {"hdr", "run"} /\ b = END -> [s EXCEPT !.phase = "done"]
      [] s.phase \in {"hdr", "run"} /\ b = LIT ->
            [s EXCEPT !.phase = "run", !.pend = Append(@, 1)]
      [] s.phase \in {"hdr", "run"} /\ b = LIT2 ->
            [s EXCEPT !.phase = "run", !.pend = Append(@, 2)]
      [] s.phase \in {"hdr", "run"} /\ b = RUN ->
            [s EXCEPT !.phase = "run", !.pend = @ \o <<2, 2>>]
      [] s.phase = "hdr" /\ b = HDR -> s
      [] OTHER -> [s EXCEPT !.phase = "err"]

\* BrotliDecoderDecompressStream: push buffered output into the room left,
\* stop with NEEDS_MORE_OUTPUT when some does not fit, with SUCCESS once the
\* stream has ended (no input is consumed after that), with
\* NEEDS_MORE_INPUT when the input is used up, with ERROR on corruption.
\* (The arguments of the recursive call are bound to their values before the
\* call is made.)
RECURSIVE EngineLoop(_, _, _, _, _)
EngineLoop(s, input, room, wr, cons) ==
    IF s.phase = "err"
    THEN [state |-> s, written |-> wr, consumed |-> cons, result |-> "ERROR"]
    ELSE LET k  == Min(Len(s.pend), room)
             s1 == [s EXCEPT !.pend = Drop(@, k)]
             w1 == wr \o Take(s.pend, k)
         IN  IF s1.pend # <<>>
             THEN [state |-> s1, written |-> w1, consumed |-> cons,
                   result |-> "NEEDS_MORE_OUTPUT"]
             ELSE IF s1.phase = "done"
             THEN [state |-> s1, written |-> w1, consumed |-> cons,
                   result |-> "SUCCESS"]
             ELSE IF input = <<>>
             THEN [state |-> s1, written |-> w1, consumed |-> cons,
                   result |-> "NEEDS_MORE_INPUT"]
             ELSE CHOOSE res \in
                    {EngineLoop(a.s, a.input, a.room, a.wr, a.cons) :
                       a \in {[s |-> Feed(s1, Head(input)),
                               input |-> Tail(input), room |-> room - k,
                               wr |-> w1, cons |-> cons + 1]}} : TRUE

\* The cgo wrapper: bytes_written and bytes_consumed as out_len minus
\* out_remaining and in_len minus in_remaining.
DecompressStream(s, outLen, input) == EngineLoop(s, input, outLen, <<>>, 0)

\* BrotliDecoderHasMoreOutput: decoded bytes wait inside the engine.
HasMoreOutput(s) == s.phase # "err" /\ s.pend # <<>>

\* BrotliDecoderIsFinished: the stream ended and all output was handed out.
IsFinished(s) == s.phase = "done" /\ s.pend = <<>>

\* ----------------------------------------------------------------- state

VARIABLES
    pc,         \* where the caller / the running method is
    mode,       \* "none", "stream" (NewReader...) or "oneshot" (Decode...)
    src,        \* r.src: the compressed bytes the Source has not yielded yet
    state,      \* r.state: the engine's state, NilState once destroyed
    buf,        \* r.buf: the region filled by the latest Source read
    in,         \* r.in: the Pending Input Slice
    pinner,     \* r.pinner: TRUE when the Reader holds a Pinner
    pinned,     \* the dictionary's memory is pinned
    p,          \* len(p) of the running Read
    n,          \* the running Read's n
    ret,        \* what the latest Read returned: [n, err]
    cret,       \* what the latest Close returned
    last,       \* the method that returned last
    call,       \* bookkeeping of the running / latest Read call
    ccall,      \* bookkeeping of the running / latest Close call
    hist,       \* bookkeeping of the Reader's life
    out,        \* every byte Read has handed to its callers, in order
    dres        \* what DecodeWithRawDictionary returned

vars == <<pc, mode, src, state, buf, in, pinner, pinned, p, n, ret, cret,
          last, call, ccall, hist, out, dres>>

Nil == "nil"

\* r.state == nil: the Reader holds no instance.
NilState == [phase |-> "nil", pend |-> <<>>, dict |-> "none"]

\* Nothing returned yet by DecodeWithRawDictionary.
NoResult == [out |-> <<>>, err |-> "unset"]

\* No Source read yet in a call.
NoSrcRead == [m |-> 0, err |-> "unset"]

\* The errors Read and Close return.
EOF == "io.EOF"
ErrUnexpectedEOF == "io.ErrUnexpectedEOF"
ErrShortBuffer == "io.ErrShortBuffer"
errExcessiveInput == "cbrotli: excessive input"
errInvalidState == "cbrotli: invalid state"
errReaderClosed == "cbrotli: Reader is closed"
decodeError == "cbrotli: decodeError"
\* Any error of the Source other than io.EOF.
errSrc == "source error"

\* Bookkeeping of one Read call: the Reader as the call found it, and what
\* the call has done so far.
NoCall == [len |-> 0, closed |-> FALSE, in0 |-> <<>>, hadOut |-> FALSE,
           srcReads |-> 0, steps |-> 0, wrote |-> <<>>, lastSrc |-> NoSrcRead,
           lateSrcRead |-> FALSE, lateStep |-> FALSE, result |-> Nil,
           pbuf |-> <<>>, srcErr |-> FALSE]

\* Bookkeeping of the latest Close call: whether it found the Reader closed,
\* and what the Close that destroyed the instance found in it.
NoClose == [closed |-> FALSE, hadOut |-> FALSE, hadIn |-> FALSE]

\* Bookkeeping of the Reader's life.  payload: what the stream decodes to;
\* fed: the bytes the engine has consumed, in order; sinceFill: how many of
\* them since r.in was last set to a filled region; dataReads: the Read
\* calls that returned bytes.
NoHist == [data |-> <<>>, shape |-> "valid", payload |-> <<>>,
           dict |-> FALSE, destroys |-> 0, unpins |-> 0, pins |-> 0,
           firstErr |-> Nil, fed |-> <<>>, sinceFill |-> 0, dataReads |-> 0]

Init ==
    /\ pc = "start"
    /\ mode = "none"
    /\ src = <<>>
    /\ state = NilState
    /\ buf = <<>>
    /\ in = <<>>
    /\ pinner = FALSE
    /\ pinned = FALSE
    /\ p = 0
    /\ n = 0
    /\ ret = [n |-> 0, err |-> Nil]
    /\ cret = Nil
    /\ last = "none"
    /\ call = NoCall
    /\ ccall = NoClose
    /\ hist = NoHist
    /\ out = <<>>
    /\ dres = NoResult

\* ------------------------------------------------ streams, by their shape

\* The engine run over a whole stream with room for all of its output.
Scan(data) == DecompressStream(CreateInstance, 2 * Len(data), data)

\* A complete payload followed by trailing bytes.
Trailing(data) ==
    Scan(data).result = "SUCCESS" /\ Scan(data).consumed < Len(data)

\* A valid stream cut before its end.
Truncated(data) == Scan(data).result = "NEEDS_MORE_INPUT"

\* The shape of a stream, noted when a Reader is made over it.
Shape(data) ==
    IF Trailing(data) THEN "trailing"
    ELSE IF Truncated(data) THEN "truncated"
    ELSE IF Scan(data).result = "ERROR" THEN "corrupt"
    ELSE "valid"

\* ---------------------------------------------------------- construction

\* BrotliDecoderAttachDictionary on a fresh instance: it reports success or
\* failure; ok is the value it returns.
AttachDictionary(s, ok) == [s EXCEPT !.dict = IF ok THEN "attached" ELSE "failed"]

\* The instance the constructors build: created, and with the dictionary
\* attached when one is given.  The return value of the attach is not used.
NewState(dictionary, ok) ==
    IF dictionary THEN AttachDictionary(CreateInstance, ok) ELSE CreateInstance

\* NewReaderWithRawDictionary(src, dictionary).  data is what src will
\* yield; dictionary is TRUE for a non-nil dictionary.
NewReaderWithRawDictionary(data, dictionary, ok) ==
    /\ pc = "start"
    /\ pc' = "idle"
    /\ mode' = "stream"
    /\ src' = data
    /\ state' = NewState(dictionary, ok)
    /\ buf' = <<>>
    /\ in' = <<>>
    /\ pinner' = dictionary
    /\ pinned' = dictionary
    /\ hist' = [hist EXCEPT !.data = data, !.shape = Shape(data),
                            !.payload = Scan(data).written,
                            !.dict = dictionary,
                            !.pins = IF dictionary THEN 1 ELSE 0]
    /\ UNCHANGED <<p, n, ret, cret, last, call, ccall, out, dres>>

\* DecodeWithRawDictionary(encodedData, dictionary), up to the deferred
\* Close: the Reader starts with in = encodedData over an empty Source.
DecodeWithRawDictionary(encodedData, dictionary, ok) ==
    /\ pc = "start"
    /\ pc' = "idle"
    /\ mode' = "oneshot"
    /\ src' = <<>>
    /\ state' = NewState(dictionary, ok)
    /\ buf' = <<>>
    /\ in' = encodedData
    /\ pinner' = dictionary
    /\ pinned' = dictionary
    /\ hist' = [hist EXCEPT !.data = encodedData,
                            !.shape = Shape(encodedData),
                            !.payload = Scan(encodedData).written,
                            !.dict = dictionary,
                            !.pins = IF dictionary THEN 1 ELSE 0]
    /\ UNCHANGED <<p, n, ret, cret, last, call, ccall, out, dres>>

\* ------------------------------------------------------------ the Source

\* r.src.Read(r.buf) by io.Reader's contract: up to cap bytes of what is
\* left, with a nil error, with io.EOF when they are the last ones, or with
\* another error; zero bytes with io.EOF once nothing is left; zero bytes
\* with a nil error, which io.Reader discourages and allows.  The
\* bytes.Reader of the one-shot path only ever reports io.EOF.
SrcRead(rest, cap) ==
    {[data |-> Take(rest, k), err |-> Nil, rest |-> Drop(rest, k)] :
        k \in 1..Min(cap, Len(rest))}
    \cup {[data |-> rest, err |-> EOF, rest |-> <<>>] :
            x \in IF Len(rest) <= cap THEN {0} ELSE {}}
    \cup {[data |-> Take(rest, k), err |-> errSrc, rest |-> Drop(rest, k)] :
            k \in IF mode = "stream" THEN 0..Min(cap, Len(rest)) ELSE {}}
    \cup {[data |-> <<>>, err |-> Nil, rest |-> rest] :
            x \in IF mode = "stream" THEN {0} ELSE {}}

\* A Source that yields its bytes and then io.EOF, for good: no error other
\* than io.EOF, and never zero bytes with a nil error.
SrcReadProper(rest, cap) ==
    {r \in SrcRead(rest, cap) :
        r.err \in {Nil, EOF} /\ ~(r.data = <<>> /\ r.err = Nil)}

\* The capacity of r.buf: readBufSize, or 4 in DecodeWithRawDictionary.
oneShotBufSize == 4

BufCap == IF mode = "oneshot" THEN oneShotBufSize ELSE readBufSize

\* ------------------------------------------------------------------ Read

\* A return statement of Read: the count and the error go to the caller,
\* who takes the first nn bytes of p.
ReturnH(nn, err, c, h) ==
    /\ ret' = [n |-> nn, err |-> err]
    /\ last' = "Read"
    /\ pc' = "idle"
    /\ call' = c
    /\ out' = out \o Take(c.pbuf, Min(nn, Len(c.pbuf)))
    /\ hist' = [h EXCEPT !.firstErr =
                    IF @ = Nil /\ ~c.closed THEN err ELSE @,
                         !.dataReads = @ + (IF nn > 0 THEN 1 ELSE 0)]

Return(nn, err, c) == ReturnH(nn, err, c, hist)

\* The call record after one more Source read.
AfterSrcRead(c, r) ==
    [c EXCEPT !.srcReads = @ + 1,
              !.lastSrc = [m |-> Len(r.data), err |-> r.err],
              !.lateSrcRead = @ \/ c.wrote # <<>>,
              !.srcErr = @ \/ r.err \notin {Nil, EOF}]

ReadClosedNever(s) == FALSE

\* Read: if r.state == nil
ReadClosed(s) == s = NilState

\* Read(p), entry: the closed check.  The caller of a streaming Reader
\* passes any buffer; ioutil.ReadAll passes non-empty ones and stops at the
\* first error.
ReadEnter(len) ==
    /\ pc = "idle"
    /\ mode = "oneshot" => len > 0 /\ ret.err = Nil
    /\ p' = len
    /\ n' = 0
    /\ LET c == [NoCall EXCEPT !.len = len,
                               !.closed = (state = NilState),
                               !.in0 = in,
                               !.hadOut = IF state = NilState THEN FALSE
                                          ELSE HasMoreOutput(state)]
       IN  IF ReadClosed(state)
           THEN Return(0, errReaderClosed, c)
           ELSE /\ pc' = "refill"
                /\ call' = c
                /\ UNCHANGED <<ret, last, out, hist>>
    /\ cret' = Nil
    /\ ccall' = NoClose
    /\ UNCHANGED <<mode, src, state, buf, in, pinner, pinned, dres>>

NeedRefillIgnoresInput(s, input) == ~HasMoreOutput(s)

\* The condition of the refill before the loop.
NeedRefill(s, input) == ~HasMoreOutput(s) /\ Len(input) = 0

RefillEmptyQuiet(readErr, s) ==
    IF readErr # EOF THEN readErr
    ELSE IF ~IsFinished(s) THEN ErrUnexpectedEOF
    ELSE Nil

\* What the refill before the loop returns when the Source gave no byte.
RefillEmpty(readErr, s) ==
    IF readErr # EOF THEN readErr
    ELSE IF ~IsFinished(s) THEN ErrUnexpectedEOF
    ELSE EOF

\* Read, the refill before the loop, over a Source whose read has the
\* outcomes reads.
ReadRefillOn(reads) ==
    /\ pc = "refill"
    /\ IF NeedRefill(state, in)
       THEN \E r \in reads :
              /\ src' = r.rest
              /\ IF r.data = <<>>
                 THEN /\ Return(0, RefillEmpty(r.err, state), AfterSrcRead(call, r))
                      /\ UNCHANGED <<buf, in>>
                 ELSE /\ buf' = r.data
                      /\ in' = r.data
                      /\ pc' = "zero"
                      /\ call' = AfterSrcRead(call, r)
                      /\ hist' = [hist EXCEPT !.sinceFill = 0]
                      /\ UNCHANGED <<ret, last, out>>
       ELSE /\ pc' = "zero"
            /\ UNCHANGED <<src, buf, in, ret, last, out, hist, call>>
    /\ UNCHANGED <<mode, state, pinner, pinned, p, n, cret, ccall, dres>>

EmptyBufferNever(len) == FALSE

\* if len(p) == 0
EmptyBuffer(len) == len = 0

\* Read, the empty-buffer return.
ReadZero ==
    /\ pc = "zero"
    /\ IF EmptyBuffer(p)
       THEN Return(0, Nil, call)
       ELSE /\ pc' = "step"
            /\ UNCHANGED <<ret, last, out, hist, call>>
    /\ UNCHANGED <<mode, src, state, buf, in, pinner, pinned, p, n,
                   cret, ccall, dres>>

\* The cases of the switch on the engine's result: whether Read returns
\* there, and with what.  n1 is the count just written, rest the input left.
OnSuccessIgnoreRest(n1, rest) == [done |-> TRUE, n |-> n1, err |-> Nil]

OnSuccessEOF(n1, rest) ==
    [done |-> TRUE, n |-> n1,
     err |-> IF Len(rest) > 0 THEN errExcessiveInput ELSE EOF]

OnSuccess(n1, rest) ==
    [done |-> TRUE, n |-> n1,
     err |-> IF Len(rest) > 0 THEN errExcessiveInput ELSE Nil]

OnErrorDropCount(n1) == [done |-> TRUE, n |-> 0, err |-> decodeError]

OnError(n1) == [done |-> TRUE, n |-> n1, err |-> decodeError]

OnNeedsMoreOutputContinue(n1) ==
    IF n1 = 0 THEN [done |-> TRUE, n |-> 0, err |-> ErrShortBuffer]
    ELSE [done |-> FALSE, n |-> n1, err |-> Nil]

OnNeedsMoreOutput(n1) ==
    IF n1 = 0 THEN [done |-> TRUE, n |-> 0, err |-> ErrShortBuffer]
    ELSE [done |-> TRUE, n |-> n1, err |-> Nil]

OnNeedsMoreInput(n1) == [done |-> FALSE, n |-> n1, err |-> Nil]

Switch(result, n1, rest) ==
    CASE result = "SUCCESS" -> OnSuccess(n1, rest)
      [] result = "ERROR" -> OnError(n1)
      [] result = "NEEDS_MORE_OUTPUT" -> OnNeedsMoreOutput(n1)
      [] result = "NEEDS_MORE_INPUT" -> OnNeedsMoreInput(n1)

AdvanceNot(input, consumed) == input

\* r.in = r.in[int(consumed):]
Advance(input, consumed) == Drop(input, consumed)

\* Read, one turn of the loop up to the end of the switch.  The engine
\* writes from the start of p, over what an earlier turn left there.
ReadStep ==
    /\ pc = "step"
    /\ LET r  == DecompressStream(state, p, in)
           i1 == Advance(in, r.consumed)
           n1 == Len(r.written)
           c  == [call EXCEPT !.steps = @ + 1,
                              !.wrote = @ \o r.written,
                              !.lateStep = @ \/ call.wrote # <<>>,
                              !.result = r.result,
                              !.pbuf = r.written \o Drop(@, n1)]
           h  == [hist EXCEPT !.fed = @ \o Take(in, r.consumed),
                              !.sinceFill = @ + r.consumed]
           o  == Switch(r.result, n1, i1)
       IN  /\ state' = r.state
           /\ in' = i1
           /\ n' = n1
           /\ IF o.done
              THEN ReturnH(o.n, o.err, c, h)
              ELSE /\ pc' = "top"
                   /\ call' = c
                   /\ hist' = h
                   /\ UNCHANGED <<ret, last, out>>
    /\ UNCHANGED <<mode, src, buf, pinner, pinned, p, cret, ccall, dres>>

HaveDataNever(n1) == FALSE

\* "Don't block if we have data to return": if n > 0
HaveData(n1) == n1 > 0

TopOffEmptyVerbatim(err) == err

\* What the refill inside the loop returns when the Source gave no byte.
TopOffEmpty(err) == IF err = EOF THEN ErrUnexpectedEOF ELSE err

\* Read, after NEEDS_MORE_INPUT: the rest of the loop body, over a Source
\* whose read has the outcomes reads.
ReadTopOffOn(reads) ==
    /\ pc = "top"
    /\ IF Len(in) # 0
       THEN /\ Return(0, errInvalidState, call)
            /\ UNCHANGED <<src, buf, in>>
       ELSE IF HaveData(n)
       THEN /\ Return(n, Nil, call)
            /\ UNCHANGED <<src, buf, in>>
       ELSE \E r \in reads :
              /\ src' = r.rest
              /\ IF r.data = <<>>
                 THEN /\ Return(0, TopOffEmpty(r.err), AfterSrcRead(call, r))
                      /\ UNCHANGED <<buf, in>>
                 ELSE /\ buf' = r.data
                      /\ in' = r.data
                      /\ pc' = "step"
                      /\ call' = AfterSrcRead(call, r)
                      /\ hist' = [hist EXCEPT !.sinceFill = 0]
                      /\ UNCHANGED <<ret, last, out>>
    /\ UNCHANGED <<mode, state, pinner, pinned, p, n, cret, ccall, dres>>

\* Read over any io.Reader.
ReadRefill == ReadRefillOn(SrcRead(src, BufCap))

ReadTopOff == ReadTopOffOn(SrcRead(src, BufCap))

\* ----------------------------------------------------------------- Close

CloseClosedNever(s) == FALSE

\* Close: if r.state == nil
CloseClosed(s) == s = NilState

\* Close releasing the pin first and leaving the instance for later.
CloseUnpinFirst ==
    /\ \/ pc = "idle" /\ mode = "stream"
       \/ pc = "defer"
    /\ ~CloseClosed(state)
    /\ ccall' = [closed |-> FALSE, hadOut |-> HasMoreOutput(state),
                 hadIn |-> in # <<>>]
    /\ pinned' = FALSE
    /\ pinner' = FALSE
    /\ hist' = [hist EXCEPT !.unpins = @ + (IF pinner THEN 1 ELSE 0)]
    /\ pc' = "unpin"
    /\ p' = 0
    /\ n' = 0
    /\ ret' = [n |-> 0, err |-> Nil]
    /\ call' = NoCall
    /\ UNCHANGED <<mode, src, state, buf, in, cret, last, out, dres>>

\* Close, up to r.state = nil.  A streaming Reader's caller may close at
\* any time between calls; DecodeWithRawDictionary closes on its way out.
Close ==
    /\ \/ pc = "idle" /\ mode = "stream"
       \/ pc = "defer"
    /\ ccall' = IF state = NilState
                THEN [ccall EXCEPT !.closed = TRUE]
                ELSE [closed |-> FALSE, hadOut |-> HasMoreOutput(state),
                      hadIn |-> in # <<>>]
    /\ IF CloseClosed(state)
       THEN /\ cret' = errReaderClosed
            /\ last' = "Close"
            /\ pc' = IF mode = "oneshot" THEN "done" ELSE "idle"
            /\ UNCHANGED <<state, hist>>
       ELSE /\ state' = NilState
            /\ hist' = [hist EXCEPT !.destroys = @ + 1]
            /\ pc' = "unpin"
            /\ UNCHANGED <<cret, last>>
    /\ p' = 0
    /\ n' = 0
    /\ ret' = [n |-> 0, err |-> Nil]
    /\ call' = NoCall
    /\ UNCHANGED <<mode, src, buf, in, pinner, pinned, out, dres>>

\* Close, from the pinner check to return nil.
CloseUnpin ==
    /\ pc = "unpin"
    /\ IF pinner
       THEN /\ pinned' = FALSE
            /\ pinner' = FALSE
            /\ hist' = [hist EXCEPT !.unpins = @ + 1]
       ELSE UNCHANGED <<pinned, pinner, hist>>
    /\ cret' = Nil
    /\ last' = "Close"
    /\ pc' = IF mode = "oneshot" THEN "done" ELSE "idle"
    /\ UNCHANGED <<mode, src, state, buf, in, p, n, ret, call, ccall,
                   out, dres>>

\* ------------------------------------------------- the one-shot's return

DecodeResultEOFIsError(err, o) == [out |-> <<>>, err |-> err]

DecodeResultPartial(err, o) ==
    [out |-> o, err |-> IF err = EOF THEN Nil ELSE err]

\* out, err := ioutil.ReadAll(r); if err != nil return nil, err; return
\* out, nil.  err is what the last Read returned, o what the Reads gave;
\* io.EOF is ReadAll's success.
DecodeResult(err, o) ==
    IF err = EOF THEN [out |-> o, err |-> Nil]
    ELSE [out |-> <<>>, err |-> err]

DecodeExitCloseOnSuccess(err) == IF err = Nil THEN "defer" ELSE "done"

\* defer r.Close(): the Close runs on the way out, whatever is returned.
DecodeExit(err) == "defer"

\* DecodeWithRawDictionary once ioutil.ReadAll has returned: io.EOF is
\* ReadAll's success; the result is set, then the deferred Close runs.
DecodeReturn ==
    /\ pc = "idle"
    /\ mode = "oneshot"
    /\ ret.err # Nil
    /\ dres' = DecodeResult(ret.err, out)
    /\ pc' = DecodeExit(dres'.err)
    /\ UNCHANGED <<mode, src, state, buf, in, pinner, pinned, p, n, ret,
                   cret, last, call, ccall, hist, out>>

\* ----------------------------------------------------------- the system

Streams == SeqsUpTo(Byte, MaxLen)

Next ==
    \/ \E data \in IF pc = "start" THEN Streams ELSE {},
          dictionary \in BOOLEAN, ok \in BOOLEAN :
          /\ ~dictionary => ok
          /\ dictionary => Len(data) <= MaxDictLen
          /\ NewReaderWithRawDictionary(data, dictionary, ok)
    \/ \E data \in IF pc = "start" THEN Streams ELSE {},
          dictionary \in BOOLEAN, ok \in BOOLEAN :
          /\ ~dictionary => ok
          /\ dictionary => Len(data) <= MaxDictLen
          /\ DecodeWithRawDictionary(data, dictionary, ok)
    \/ \E len \in 0..MaxP : ReadEnter(len)
    \/ ReadRefill
    \/ ReadZero
    \/ ReadStep
    \/ ReadTopOff
    \/ Close
    \/ CloseUnpin
    \/ DecodeReturn

Spec == Init /\ [][Next]_vars

\* A streaming Reader over a Source that yields its bytes and then io.EOF,
\* and a caller that goes on calling Read with non-empty buffers and never
\* closes.
LiveNext ==
    \/ \E data \in IF pc = "start" THEN Streams ELSE {} :
          NewReaderWithRawDictionary(data, FALSE, TRUE)
    \/ \E len \in 1..MaxP : ReadEnter(len)
    \/ ReadRefillOn(SrcReadProper(src, BufCap))
    \/ ReadZero
    \/ ReadStep
    \/ ReadTopOffOn(SrcReadProper(src, BufCap))

\* Read is straight-line blocking code and the caller keeps calling: a step
\* that can be taken is taken.
LiveSpec == Init /\ [][LiveNext]_vars /\ WF_vars(LiveNext)

\* A Read call has returned and nothing ran since.
Returned == pc = "idle" /\ last = "Read"

\* A Close call has returned and nothing ran since.
CloseReturned == pc \in {"idle", "done"} /\ last = "Close"

InRead == pc \in {"refill", "zero", "step", "top"}

\* DecodeWithRawDictionary has its result (the deferred Close running or
\* over).
Decoded == mode = "oneshot" /\ pc \in {"defer", "unpin", "done"}

\* The region r.in was last cut from: r.buf as the latest Source read
\* filled it, or encodedData in DecodeWithRawDictionary, whose Source never
\* yields a byte.
Region == IF mode = "oneshot" THEN hist.data ELSE buf

\* The bytes the Source has yielded so far (on the one-shot path, the
\* bytes the caller supplied).
Yielded ==
    IF mode = "oneshot" THEN hist.data
    ELSE Take(hist.data, Len(hist.data) - Len(src))

\* ------------------------------------------------------------ the encoder

\* The tokens an encoder writes for the bytes x (over 1 and 2): RUN for
\* two 2s in a row, LIT and LIT2 for single bytes.
RECURSIVE EncodeTokens(_)
EncodeTokens(x) ==
    IF x = <<>> THEN <<>>
    ELSE IF Len(x) >= 2 /\ x[1] = 2 /\ x[2] = 2
    THEN <<RUN>> \o EncodeTokens(Drop(x, 2))
    ELSE IF x[1] = 1 THEN <<LIT>> \o EncodeTokens(Tail(x))
    ELSE <<LIT2>> \o EncodeTokens(Tail(x))

\* The compressed stream of x: its tokens, then the terminator.
Encode(x) == EncodeTokens(x) \o <<END>>

\* The payloads whose round trip is checked.
Payloads == SeqsUpTo({1, 2}, MaxLen)

\* ---------------------------------------------------------------- claims

\* C1: once Close has succeeded, no Read gets past the closed check: every
\* later Read, whatever its buffer, returns (0, errReaderClosed) having read
\* nothing from the Source, run no engine step and left r.in as it was.
C1_ReadAfterClose ==
    hist.destroys > 0 =>
        /\ ~InRead
        /\ Returned =>
              /\ call.closed
              /\ ret = [n |-> 0, err |-> errReaderClosed]
              /\ call.srcReads = 0
              /\ call.steps = 0
              /\ in = call.in0

\* A zero-length Read on a closed Reader that still holds pending input.
C1_Witness ==
    /\ hist.destroys > 0
    /\ Returned
    /\ call.len = 0
    /\ in # <<>>
    /\ ret.err = errReaderClosed

\* C2: the instance is destroyed at most once, and exactly when r.state is
\* nil; the Close that finds the Reader open returns nil whatever the engine
\* holds, every Close that finds it closed returns errReaderClosed.
C2_DestroyOnce ==
    /\ hist.destroys <= 1
    /\ (hist.destroys = 1) = (mode # "none" /\ state = NilState)
    /\ CloseReturned =>
          /\ hist.destroys = 1
          /\ cret = IF ccall.closed THEN errReaderClosed ELSE Nil

\* A second Close, after a first one that destroyed an engine still
\* holding decoded output, with input pending.
C2_Witness ==
    /\ CloseReturned
    /\ ccall.closed
    /\ ccall.hadOut
    /\ ccall.hadIn
    /\ cret = errReaderClosed
    /\ hist.destroys = 1

\* C3 as stated: a zero-length Read on an open Reader always returns
\* (0, nil), reads nothing from the Source, leaves r.in alone and runs no
\* engine step.
C3_AsStated ==
    (Returned /\ ~call.closed /\ call.len = 0) =>
        /\ ret = [n |-> 0, err |-> Nil]
        /\ call.srcReads = 0
        /\ in = call.in0
        /\ call.steps = 0

\* C3, amended: a zero-length Read on an open Reader never runs an engine
\* step and returns count 0.  With output buffered in the engine or input
\* pending it returns (0, nil) and touches nothing.  Otherwise it does the
\* refill first, one Source read: bytes that arrive become r.in and it
\* returns (0, nil); when none arrive it returns the Source's error, or
\* io.EOF / io.ErrUnexpectedEOF on end-of-data.
C3_ZeroLengthRead ==
    /\ (call.len = 0 /\ ~call.closed) => call.steps = 0 /\ pc \notin {"step", "top"}
    /\ (Returned /\ ~call.closed /\ call.len = 0) =>
          /\ ret.n = 0
          /\ IF call.hadOut \/ call.in0 # <<>>
             THEN ret.err = Nil /\ call.srcReads = 0 /\ in = call.in0
             ELSE /\ call.srcReads = 1
                  /\ IF call.lastSrc.m > 0
                     THEN ret.err = Nil /\ in = buf /\ Len(in) = call.lastSrc.m
                     ELSE /\ in = <<>>
                          /\ ret.err =
                               IF call.lastSrc.err # EOF THEN call.lastSrc.err
                               ELSE IF IsFinished(state) THEN EOF
                               ELSE ErrUnexpectedEOF

\* A zero-length Read that went to the Source and came back with
\* io.ErrUnexpectedEOF.
C3_Witness ==
    /\ Returned
    /\ ~call.closed
    /\ call.len = 0
    /\ call.srcReads = 1
    /\ ret.err = ErrUnexpectedEOF

\* C4: whatever Read returns, its count is the number of bytes the engine
\* wrote into p during the call.
C4_CountIsWritten == Returned => ret.n = Len(call.wrote)

\* A Read that fails with a decode error after the engine wrote bytes.
C4_Witness ==
    /\ Returned
    /\ ret.err = decodeError
    /\ ret.n > 0

\* C5: a Read whose engine step reports SUCCESS with input left returns
\* errExcessiveInput; and over a stream that is a complete payload plus
\* trailing bytes no Read returns io.EOF, the first error a Read returns is
\* errExcessiveInput unless the Source failed first, and the one-shot
\* decode returns errExcessiveInput.
C5_ExcessiveInput ==
    /\ (Returned /\ call.result = "SUCCESS" /\ in # <<>>) =>
          ret.err = errExcessiveInput
    /\ hist.shape = "trailing" =>
          /\ ret.err # EOF
          /\ hist.firstErr \in {Nil, errSrc, errExcessiveInput}
          /\ dres.err \in {"unset", errExcessiveInput}

\* The payload ended in an earlier Read; this one fetched only trailing
\* bytes from the Source and reports them.
C5_Witness ==
    /\ Returned
    /\ hist.shape = "trailing"
    /\ ret.err = errExcessiveInput
    /\ call.in0 = <<>>
    /\ call.srcReads = 1
    /\ in = buf

\* C6: a Source read that yields zero bytes with io.EOF while the engine is
\* not finished makes Read return (0, io.ErrUnexpectedEOF), before the loop
\* and inside it; over a stream cut mid-payload no Read returns io.EOF and
\* the one-shot decode does not succeed.
C6_TruncatedStream ==
    /\ (Returned /\ call.lastSrc = [m |-> 0, err |-> EOF] /\ ~IsFinished(state)) =>
          ret = [n |-> 0, err |-> ErrUnexpectedEOF]
    /\ hist.shape = "truncated" =>
          /\ ret.err # EOF
          /\ hist.firstErr # EOF
          /\ dres.err # Nil

\* The Source ran dry inside the loop, after an engine step asked for more.
C6_Witness ==
    /\ Returned
    /\ hist.shape = "truncated"
    /\ call.steps > 0
    /\ call.lastSrc = [m |-> 0, err |-> EOF]
    /\ ret.err = ErrUnexpectedEOF

\* C7: Read returns io.EOF only with count 0, and only from the refill
\* before the loop: nothing buffered in the engine, r.in empty, the Source
\* at end-of-data with zero bytes, the engine finished.  A Read whose engine
\* step reports SUCCESS with no input left returns (n, nil).
C7_EndOfStream ==
    Returned =>
        /\ ret.err = EOF =>
              /\ ret.n = 0
              /\ ~call.hadOut
              /\ call.in0 = <<>>
              /\ call.steps = 0
              /\ call.lastSrc = [m |-> 0, err |-> EOF]
              /\ IsFinished(state)
        /\ (call.result = "SUCCESS" /\ in = <<>>) =>
              ret = [n |-> Len(call.wrote), err |-> Nil]

\* io.EOF from a Read that follows Reads which delivered the payload.
C7_Witness ==
    /\ Returned
    /\ ret.err = EOF
    /\ out # <<>>

\* C8: within a call the Source is read only while nothing has been written
\* into p; the refill before the loop happens only with nothing buffered in
\* the engine and r.in empty; after NEEDS_MORE_INPUT with n > 0 Read returns
\* (n, nil).
C8_NoBlockingWithData ==
    /\ ~call.lateSrcRead
    /\ (call.srcReads > 0 /\ call.steps = 0) => ~call.hadOut /\ call.in0 = <<>>
    /\ (call.result = "NEEDS_MORE_INPUT" /\ n > 0 /\ pc # "top") =>
          Returned /\ ret = [n |-> n, err |-> Nil]

\* NEEDS_MORE_INPUT with bytes written, returned while the Source still has
\* data.
C8_Witness ==
    /\ Returned
    /\ call.result = "NEEDS_MORE_INPUT"
    /\ ret.n > 0
    /\ src # <<>>

\* C9: when an engine step on a non-empty p reports NEEDS_MORE_OUTPUT, Read
\* returns there and then: (0, io.ErrShortBuffer) if the step wrote nothing,
\* (n, nil) otherwise.
C9_NeedsMoreOutput ==
    (call.result = "NEEDS_MORE_OUTPUT" /\ call.len > 0) =>
        /\ Returned
        /\ ret = IF n = 0 THEN [n |-> 0, err |-> ErrShortBuffer]
                 ELSE [n |-> n, err |-> Nil]

\* NEEDS_MORE_OUTPUT returned with bytes written while the Source still has
\* data to fetch.
C9_Witness ==
    /\ Returned
    /\ call.result = "NEEDS_MORE_OUTPUT"
    /\ ret.n > 0
    /\ ret.err = Nil
    /\ src # <<>>

C11_AttachFailurePropagated == state.dict = "failed" => ~InRead

\* C12: whenever a Source read made during a Read call signals an error
\* other than io.EOF, that Read call returns that same error: none is
\* swallowed.
C12_SourceErrorVerbatim == Returned /\ call.srcErr => ret.err = errSrc

\* C13: for a well-formed stream, the bytes successive Read calls return,
\* joined in order, are at every moment a prefix of the decoded payload and,
\* once a Read returns io.EOF, the whole payload, whatever the caller's
\* buffer sizes and however the Source cuts the stream; no Read returns
\* io.ErrShortBuffer.
C13_ChunkingIndependent ==
    hist.shape = "valid" =>
        /\ IsPrefix(out, hist.payload)
        /\ Returned /\ ret.err = EOF => out = hist.payload
        /\ Returned => ret.err # ErrShortBuffer

\* The two bytes of one RUN token were handed out by two Read calls (the
\* engine writes both when there is room: the buffers were of one byte),
\* then io.EOF.
C13_Witness ==
    /\ Returned
    /\ ret.err = EOF
    /\ mode = "stream"
    /\ hist.data = <<RUN, END>>
    /\ hist.dataReads = 2
    /\ out = <<2, 2>>

\* C14: for every payload x, DecodeWithRawDictionary over Encode(x) returns
\* exactly x and no error, the empty payload (a stream of the terminator
\* only) included.
C14_RoundTrip ==
    \A x \in Payloads :
        /\ mode = "oneshot"
        /\ pc \in {"defer", "unpin", "done"}
        /\ hist.data = Encode(x)
        => dres = [out |-> x, err |-> Nil]

\* The one-shot decode has returned the two bytes of Encode(<<2, 2>>).
C14_Witness ==
    /\ mode = "oneshot"
    /\ pc = "done"
    /\ hist.data = Encode(<<2, 2>>)
    /\ dres = [out |-> <<2, 2>>, err |-> Nil]

\* C15: when DecodeWithRawDictionary has returned, with a result or with an
\* error, the instance was destroyed exactly once and the dictionary's pin,
\* if one was taken, was released.
C15_DecodeAllCloses ==
    mode = "oneshot" /\ pc = "done" =>
        /\ state = NilState
        /\ hist.destroys = 1
        /\ hist.unpins = hist.pins
        /\ ~pinned
        /\ ~pinner

\* A one-shot decode with a dictionary has failed on a corrupt stream and
\* returned.
C15_Witness ==
    /\ mode = "oneshot"
    /\ pc = "done"
    /\ hist.dict
    /\ dres.err = decodeError
    /\ hist.unpins = 1

\* C16: while the Reader is open, r.in is what is left of the region it was
\* last cut from once the bytes the engine consumed since are taken off its
\* front: a suffix of that region, shortened by each engine step by exactly
\* the bytes that step consumed.
C16_PendingIsSuffix ==
    mode # "none" /\ state # NilState =>
        /\ hist.sinceFill <= Len(Region)
        /\ in = Drop(Region, hist.sinceFill)
        /\ Take(Region, hist.sinceFill) =
              Drop(hist.fed, Len(hist.fed) - hist.sinceFill)

\* Between two Read calls part of the filled region is consumed and part
\* of it is still pending.
C16_Witness ==
    /\ Returned
    /\ mode = "stream"
    /\ state # NilState
    /\ hist.sinceFill > 0
    /\ in # <<>>
    /\ Len(in) < Len(buf)

\* C17: the bytes the engine has consumed, in order, followed by the bytes
\* still pending in r.in, are exactly the bytes the Source has yielded: none
\* is skipped, overwritten before the engine took it, or given twice.
C17_InputConserved == mode # "none" => hist.fed \o in = Yielded

\* The engine has consumed an earlier chunk and a later one has just been
\* read into the buffer.
C17_Witness ==
    /\ pc = "step"
    /\ mode = "stream"
    /\ hist.fed # <<>>
    /\ hist.sinceFill = 0
    /\ in # <<>>
    /\ call.srcReads > 0

\* C19: DecodeWithRawDictionary returns either the whole decoded payload
\* and no error, or an error and no bytes at all.
C19_AllOrNothing ==
    Decoded =>
        \/ /\ dres.err = Nil
           /\ hist.shape = "valid"
           /\ dres.out = hist.payload
        \/ /\ dres.err \notin {Nil, "unset"}
           /\ dres.out = <<>>

\* The Reads handed out bytes before one of them failed; the one-shot
\* decode returns the error and none of the bytes.
C19_Witness ==
    /\ mode = "oneshot"
    /\ pc = "done"
    /\ out # <<>>
    /\ dres.err \notin {Nil, "unset"}
    /\ dres.out = <<>>

\* C18: over a Source that yields finitely many bytes and never zero bytes
\* with a nil error, every Read call returns, and a caller that keeps
\* calling Read with non-empty buffers receives, sooner or later, a status
\* other than nil: the (0, nil) results do not go on for ever.
C18_Progress ==
    /\ [](InRead => <>(pc = "idle"))
    /\ <>(hist.firstErr # Nil)

\* A Read with a non-empty buffer that read the Source returned (0, nil).
C18_Witness ==
    /\ Returned
    /\ call.len > 0
    /\ call.srcReads > 0
    /\ ret = [n |-> 0, err |-> Nil]
    /\ hist.firstErr = Nil
====
